---- MODULE Spec2Model ----
(***************************************************************************)
(* GPTService (backend/app/services/gpt_service.py): prompt construction,  *)
(* one chat-completion request per call, and the defensive parsing of the  *)
(* reply into a recommendation result or a fixed fallback.                 *)
(*                                                                         *)
(* Text that the code only passes on or compares as a whole (movie titles, *)
(* prompt pieces, summaries) is a TLA+ string.  Text that the code scans   *)
(* (the reply) is a sequence of pieces: every structural character the     *)
(* code or the JSON decoder looks at ({ } [ ] " : , and white space) is a  *)
(* piece of its own, and a run of other characters is one piece.           *)
(***************************************************************************)
EXTENDS Integers, Sequences, FiniteSets, TLC

\* ------------------------------------------------------------------ bounds
MaxMovies == 3      \* longest movie list
MaxCalls == 2       \* invocations that may be in flight together
MaxEntries == 2     \* longest unified_recommendations list the LLM writes
MaxLen == 4         \* longest arbitrary (non-JSON) reply, in pieces

\* ------------------------------------------------------- sequence helpers
Range(s) == {s[i] : i \in DOMAIN s}

\* str.count(ch)
Count(s, ch) == Cardinality({i \in DOMAIN s : s[i] = ch})

\* str.find(ch): first index (1-based), 0 when absent (Python's -1)
Find(s, ch) ==
    IF ch \in Range(s) THEN CHOOSE i \in DOMAIN s : s[i] = ch /\ \A j \in 1..(i - 1) : s[j] # ch
    ELSE 0

\* str.rfind(ch): last index (1-based), 0 when absent (Python's -1)
RFind(s, ch) ==
    IF ch \in Range(s) THEN CHOOSE i \in DOMAIN s : s[i] = ch /\ \A j \in (i + 1)..Len(s) : s[j] # ch
    ELSE 0

\* the pieces of s that are not in the set drop, in order
Without(s, drop) == SelectSeq(s, LAMBDA x : x \notin drop)

\* ----------------------------------------------------------- JSON values
\* What json.loads returns, tagged by Python type.
Null == [t |-> "null"]
Num(lexeme) == [t |-> "num", n |-> lexeme]
Str(pieces) == [t |-> "str", s |-> pieces]
Arr(items) == [t |-> "arr", a |-> items]
Obj(members) == [t |-> "obj", o |-> members]     \* members: <<key pieces, value>>, in order

WhiteSpace == {" ", "\n", "\r", "\t"}
ControlPieces == {"\n", "\r", "\t"}
NumberPieces == {"0", "1", "0.7", "0.85", "0.9", "0.95"}

\* dict.get(key, default): the last member named key wins, as in a Python dict
Get(members, key, default) ==
    LET hits == {i \in DOMAIN members : members[i][1] = key}
    IN  IF hits = {} THEN default
        ELSE members[CHOOSE i \in hits : \A j \in hits : j <= i][2]

\* key in dict
Has(members, key) == \E i \in DOMAIN members : members[i][1] = key

\* Python truthiness of a decoded value
Truthy(v) ==
    CASE v.t = "null" -> FALSE
      [] v.t = "num" -> v.n # "0"
      [] v.t = "str" -> v.s # <<>>
      [] v.t = "arr" -> v.a # <<>>
      [] v.t = "obj" -> v.o # <<>>

\* ----------------------------------------------------------- json.loads
Fail == [ok |-> FALSE, v |-> Null, i |-> 0]
Good(v, i) == [ok |-> TRUE, v |-> v, i |-> i]

RECURSIVE SkipWs(_, _)
SkipWs(s, i) == IF i <= Len(s) /\ s[i] \in WhiteSpace THEN SkipWs(s, i + 1) ELSE i

\* A string literal whose opening quote is at i - 1.  A backslash escapes the
\* piece after it; a raw control character is a decode error.
RECURSIVE ScanString(_, _, _)
ScanString(s, i, acc) ==
    IF i > Len(s) THEN Fail
    ELSE IF s[i] = "\"" THEN Good(Str(acc), i + 1)
    ELSE IF s[i] \in ControlPieces THEN Fail
    ELSE IF s[i] = "\\" THEN
        IF i + 1 <= Len(s) /\ s[i + 1] \in {"\"", "\\"}
        THEN ScanString(s, i + 2, Append(acc, s[i + 1]))
        ELSE Fail
    ELSE ScanString(s, i + 1, Append(acc, s[i]))

RECURSIVE ParseValue(_, _), ParseMembers(_, _, _), ParseItems(_, _, _)
ParseValue(s, i0) ==
    LET i == SkipWs(s, i0)
    IN  IF i > Len(s) THEN Fail
        ELSE IF s[i] = "\"" THEN ScanString(s, i + 1, <<>>)
        ELSE IF s[i] = "null" THEN Good(Null, i + 1)
        ELSE IF s[i] \in NumberPieces THEN Good(Num(s[i]), i + 1)
        ELSE IF s[i] = "{" THEN
            LET j == SkipWs(s, i + 1)
            IN  IF j <= Len(s) /\ s[j] = "}" THEN Good(Obj(<<>>), j + 1)
                ELSE ParseMembers(s, j, <<>>)
        ELSE IF s[i] = "[" THEN
            LET j == SkipWs(s, i + 1)
            IN  IF j <= Len(s) /\ s[j] = "]" THEN Good(Arr(<<>>), j + 1)
                ELSE ParseItems(s, j, <<>>)
        ELSE Fail

\* "key": value, then "," and another member, or "}"
ParseMembers(s, i0, acc) ==
    LET i == SkipWs(s, i0)
    IN  IF i > Len(s) \/ s[i] # "\"" THEN Fail
        ELSE LET k == ScanString(s, i + 1, <<>>)
             IN  IF ~k.ok THEN Fail
                 ELSE LET c == SkipWs(s, k.i)
                      IN  IF c > Len(s) \/ s[c] # ":" THEN Fail
                          ELSE LET v == ParseValue(s, c + 1)
                               IN  IF ~v.ok THEN Fail
                                   ELSE LET e == SkipWs(s, v.i)
                                            all == Append(acc, <<k.v.s, v.v>>)
                                        IN  IF e > Len(s) THEN Fail
                                            ELSE IF s[e] = "}" THEN Good(Obj(all), e + 1)
                                            ELSE IF s[e] = "," THEN ParseMembers(s, e + 1, all)
                                            ELSE Fail

\* value, then "," and another item, or "]"
ParseItems(s, i0, acc) ==
    LET v == ParseValue(s, i0)
    IN  IF ~v.ok THEN Fail
        ELSE LET e == SkipWs(s, v.i)
                 all == Append(acc, v.v)
             IN  IF e > Len(s) THEN Fail
                 ELSE IF s[e] = "]" THEN Good(Arr(all), e + 1)
                 ELSE IF s[e] = "," THEN ParseItems(s, e + 1, all)
                 ELSE Fail

\* json.loads(s): ok is FALSE where Python raises JSONDecodeError
JsonLoads(s) ==
    LET r == ParseValue(s, 1)
    IN  IF r.ok /\ SkipWs(s, r.i) > Len(s) THEN r ELSE Fail

\* --------------------------------------------------- what the LLM writes
\* json text of a value, as a well-behaved LLM would write it
RECURSIVE Render(_), RenderMembers(_), RenderItems(_)
Render(v) ==
    CASE v.t = "null" -> <<"null">>
      [] v.t = "num" -> <<v.n>>
      [] v.t = "str" -> <<"\"">> \o v.s \o <<"\"">>
      [] v.t = "arr" -> <<"[">> \o RenderItems(v.a) \o <<"]">>
      [] v.t = "obj" -> <<"{">> \o RenderMembers(v.o) \o <<"}">>

RenderMembers(ms) ==
    IF ms = <<>> THEN <<>>
    ELSE <<"\"">> \o ms[1][1] \o <<"\"", ":", " ">> \o Render(ms[1][2])
         \o (IF Len(ms) > 1 THEN <<",", "\n">> \o RenderMembers(Tail(ms)) ELSE <<>>)

RenderItems(xs) ==
    IF xs = <<>> THEN <<>>
    ELSE Render(xs[1]) \o (IF Len(xs) > 1 THEN <<",", " ">> \o RenderItems(Tail(xs)) ELSE <<>>)

\* ------------------------------------------------------- optional values
\* None is <<>>, a value x is <<x>>.
None == <<>>
Some(x) == <<x>>

\* Python truthiness of an optional string, and of an optional list
IsSet(opt) == opt # None /\ opt[1] # ""
IsSetList(opt) == opt # None /\ opt[1] # <<>>

\* sep.join(strings)
RECURSIVE Join(_, _)
Join(strings, sep) ==
    IF strings = <<>> THEN ""
    ELSE IF Len(strings) = 1 THEN strings[1]
    ELSE strings[1] \o sep \o Join(Tail(strings), sep)

\* ---------------------------------------------------------------- prompts
\* A prompt is the sequence of its lines.  Bullet stands for the "• " that
\* starts a bulleted line.
Bullet == "* "

books_per_recommendation == 3
generate_max_tokens == 2000
analyze_max_tokens == 600
generate_temperature == "0.3"
analyze_temperature == "0.6"

_get_system_prompt ==
    << "You are a literary taste analyst. Your task is to analyze movie preferences and recommend books.",
       "",
       "CRITICAL: You must respond with ONLY valid JSON. No explanations, no markdown, no extra text.",
       "",
       "ANALYSIS PRINCIPLES:",
       "- Identify themes, tone, and narrative style across movies",
       "- Extract emotional and artistic preferences",
       "- Find deeper aesthetic connections",
       "",
       "SCORING:",
       "- confidence_score: 0.7-1.0 based on pattern clarity",
       "- taste_match_score: 0.7-1.0 based on thematic alignment",
       "",
       "RESPONSE FORMAT: Valid JSON only, exactly matching the required structure." >>

_get_json_schema ==
    << "{",
       "  \"taste_profile\": {",
       "    \"themes\": [\"theme1\", \"theme2\", \"theme3\"],",
       "    \"narrative_style\": \"concise description of storytelling preferences\",",
       "    \"emotional_tone\": \"preferred emotional register\",",
       "    \"genre_fusion\": \"genre preferences and blending patterns\",",
       "    \"character_preferences\": \"preferred character archetypes and development\",",
       "    \"artistic_sensibilities\": \"aesthetic and stylistic preferences\",",
       "    \"confidence_score\": 0.85",
       "  },",
       "  \"unified_recommendations\": [",
       "    {",
       "      \"title\": \"Book Title\",",
       "      \"author\": \"Author Name\", ",
       "      \"reason\": \"75+ word explanation connecting to unified taste profile\",",
       "      \"taste_match_score\": 0.95,",
       "      \"primary_appeal\": \"core aspect of taste this book satisfies\"",
       "    }",
       "  ]",
       "}" >>

\* lines 116-128: the bullet lines of the preferences that are set, in order
constraint_list(preferences) ==
    LET p == preferences[1]
    IN  (IF IsSet(p.mood) THEN <<"Mood alignment: " \o p.mood[1]>> ELSE <<>>)
        \o (IF IsSet(p.pace) THEN <<"Pacing: " \o p.pace[1]>> ELSE <<>>)
        \o (IF IsSetList(p.genre_preferences)
            THEN <<"Favor: " \o Join(p.genre_preferences[1], ", ")>> ELSE <<>>)
        \o (IF IsSetList(p.genre_blocklist)
            THEN <<"Avoid: " \o Join(p.genre_blocklist[1], ", ")>> ELSE <<>>)

\* "\n\nCONSTRAINTS:\n• " + "\n• ".join(constraint_list), as lines
ConstraintsBlock(list) ==
    <<"", "CONSTRAINTS:">> \o [i \in 1..Len(list) |-> Bullet \o list[i]]

\* A prompt that adds the block whenever preferences are given.
ConstraintsWheneverGiven(preferences) ==
    IF preferences # None THEN ConstraintsBlock(constraint_list(preferences)) ELSE <<>>

\* lines 116-128: nothing without preferences or without a set field
Constraints(preferences) ==
    IF preferences # None /\ constraint_list(preferences) # <<>>
    THEN ConstraintsBlock(constraint_list(preferences))
    ELSE <<>>

_build_unified_prompt(movies, preferences) ==
    LET movies_str == Join(movies, ", ")
        analysis_instruction ==
            IF Len(movies) = 1
            THEN "Analyze " \o movies[1] \o " to extract the viewer's aesthetic preferences:"
            ELSE "Find the unified taste pattern across: " \o movies_str
        prompt ==
            << analysis_instruction,
               "",
               "STEP 1 - TASTE ANALYSIS:",
               "Extract the aesthetic DNA by identifying:",
               Bullet \o "Recurring themes and emotional territories",
               Bullet \o "Narrative complexity preferences (linear/non-linear, character vs. plot-driven)",
               Bullet \o "Tonal signatures (dark/light, realistic/fantastical, introspective/action-oriented)",
               Bullet \o "Character archetype preferences and relationship dynamics",
               Bullet \o "Visual/atmospheric sensibilities that translate to literary mood",
               "",
               "STEP 2 - BOOK RECOMMENDATIONS:",
               "Select " \o ToString(books_per_recommendation)
                   \o " books that share this aesthetic DNA. Prioritize:",
               Bullet \o "Thematic resonance over genre matching",
               Bullet \o "Narrative sophistication level alignment",
               Bullet \o "Emotional and tonal consistency",
               Bullet \o "Character depth matching viewer preferences" >>
    IN  prompt \o Constraints(preferences)
        \o << "",
              "",
              "CRITICAL: Respond with ONLY the JSON below. No explanations, no markdown, no extra text:",
              "" >>
        \o _get_json_schema

\* lines 299-321: the analysis prompt; preferences are not used
AnalysisPrompt(movies) ==
    << "Extract the unified aesthetic profile from: " \o Join(movies, ", "),
       "",
       "ANALYSIS FRAMEWORK:",
       Bullet \o "Thematic territories: Core emotional/philosophical themes",
       Bullet \o "Narrative DNA: Structural and storytelling preferences  ",
       Bullet \o "Tonal signature: Emotional register and atmospheric preferences",
       Bullet \o "Character archetypes: Relationship dynamics and development patterns",
       Bullet \o "Artistic sensibilities: Visual/stylistic elements that translate to literary mood",
       "",
       "SCORING: Rate confidence (0.5-1.0) based on pattern clarity across films.",
       "",
       "RESPONSE FORMAT:",
       "{",
       "  \"themes\": [\"specific thematic elements\"],",
       "  \"narrative_style\": \"storytelling approach preferences\",",
       "  \"emotional_tone\": \"tonal and atmospheric preferences\", ",
       "  \"genre_fusion\": \"genre blending and boundary preferences\",",
       "  \"character_preferences\": \"character type and development preferences\",",
       "  \"artistic_sensibilities\": \"aesthetic and stylistic preferences\",",
       "  \"confidence_score\": 0.85",
       "}" >>

AnalysisSystemPrompt ==
    << "You are an expert in cross-media aesthetic analysis. Extract unified patterns from film preferences. Always respond with valid JSON only." >>

\* A summary that words two movies like one.
_create_movie_summary_interest(movies) ==
    IF Len(movies) = 1 THEN "Based on your interest in " \o movies[1]
    ELSE IF Len(movies) = 2
    THEN "Based on your interest in " \o movies[1] \o " and " \o movies[2]
    ELSE "Based on your taste profile from "
         \o Join(SubSeq(movies, 1, Len(movies) - 1), ", ")
         \o ", and " \o movies[Len(movies)]

\* A summary without the branch for two movies.
_create_movie_summary_no_pair(movies) ==
    IF Len(movies) = 1 THEN "Based on your interest in " \o movies[1]
    ELSE "Based on your taste profile from "
         \o Join(SubSeq(movies, 1, Len(movies) - 1), ", ")
         \o ", and " \o movies[Len(movies)]

\* ------------------------------------------------------- movie summary
_create_movie_summary(movies) ==
    IF Len(movies) = 1 THEN "Based on your interest in " \o movies[1]
    ELSE IF Len(movies) = 2
    THEN "Based on your taste for " \o movies[1] \o " and " \o movies[2]
    ELSE "Based on your taste profile from "
         \o Join(SubSeq(movies, 1, Len(movies) - 1), ", ")
         \o ", and " \o movies[Len(movies)]

\* ------------------------------------------------------------- fallback
Text(string) == Str(<<string>>)

BookRecommendation(title, author, reason, taste_match_score, primary_appeal) ==
    [title |-> title, author |-> author, reason |-> reason,
     taste_match_score |-> taste_match_score, primary_appeal |-> primary_appeal]

TasteProfile(themes, narrative_style, emotional_tone, genre_fusion, character_preferences, artistic_sensibilities, confidence_score) ==
    [themes |-> themes, narrative_style |-> narrative_style,
     emotional_tone |-> emotional_tone, genre_fusion |-> genre_fusion,
     character_preferences |-> character_preferences,
     artistic_sensibilities |-> artistic_sensibilities,
     confidence_score |-> confidence_score]

RecommendationResponse(movie, books, taste_profile) ==
    [movie |-> movie, books |-> books, taste_profile |-> taste_profile]

fallback_books ==
    << BookRecommendation(
           Text("The Seven Husbands of Evelyn Hugo"), Text("Taylor Jenkins Reid"),
           Text("A compelling narrative that combines character depth with emotional complexity, appealing to viewers who appreciate sophisticated storytelling."),
           Num("0.8"), Text("Character-driven storytelling")),
       BookRecommendation(
           Text("Klara and the Sun"), Text("Kazuo Ishiguro"),
           Text("Masterful blend of speculative elements with profound human themes, perfect for those who enjoy thoughtful, emotionally resonant narratives."),
           Num("0.85"), Text("Thoughtful speculative fiction")),
       BookRecommendation(
           Text("The Midnight Library"), Text("Matt Haig"),
           Text("Philosophical exploration of life choices and possibilities, combining accessibility with deeper existential themes."),
           Num("0.75"), Text("Philosophical exploration")) >>

fallback_taste_profile ==
    TasteProfile(
        Arr(<<Text("character development"), Text("emotional depth"), Text("existential themes")>>),
        Text("Layered, character-driven storytelling"),
        Text("Thoughtful and introspective"),
        Text("Literary fiction with speculative elements"),
        Text("Complex, well-developed characters"),
        Text("Appreciation for literary craftsmanship"),
        Num("0.6"))

\* What a function does: it returns a value or raises, having written log
\* entries and handed texts to json.loads.
Outcome(value, log) ==
    [raised |-> FALSE, exc |-> "", value |-> Some(value), log |-> log, loads |-> <<>>]
Raise(exc) == [raised |-> TRUE, exc |-> exc, value |-> None, log |-> <<>>, loads |-> <<>>]
Logged(entries, outcome) == [outcome EXCEPT !.log = entries \o @]
Decoded(json_str, outcome) == [outcome EXCEPT !.loads = <<json_str>> \o @]
\* an except clause: what the try body did, then the entries and the handler
Except(try, entries, handler) ==
    [handler EXCEPT !.log = try.log \o entries \o @, !.loads = try.loads \o @]

_create_fallback_response(movies) ==
    Outcome(<< RecommendationResponse(_create_movie_summary(movies),
                                      fallback_books, Some(fallback_taste_profile)) >>,
            <<"warning: Using fallback response due to GPT parsing error">>)

\* lines 343-351: the mapping analyze_taste_profile returns on any failure
AnalysisFallback ==
    Obj(<< <<<<"themes">>, Arr(<<Text("character-driven narratives"), Text("emotional complexity")>>)>>,
           <<<<"narrative_style">>, Text("Layered, sophisticated storytelling")>>,
           <<<<"emotional_tone">>, Text("Thoughtful and emotionally resonant")>>,
           <<<<"genre_fusion">>, Text("Cross-genre sensibilities")>>,
           <<<<"character_preferences">>, Text("Complex, well-developed characters")>>,
           <<<<"artistic_sensibilities">>, Text("Appreciation for narrative craftsmanship")>>,
           <<<<"confidence_score">>, Num("0.5")>> >>)

\* ------------------------------------------------ _parse_unified_response
\* Positions are Python's: 0-based, a slice [a:b] excludes b, find gives -1.
PyFind(s, ch) == Find(s, ch) - 1
PyRFind(s, ch) == RFind(s, ch) - 1

\* s[a:b]; a negative a counts from the end
PySlice(s, a, b) ==
    LET from == IF a < 0 THEN (IF a + Len(s) < 0 THEN 0 ELSE a + Len(s)) ELSE a
    IN  SubSeq(s, from + 1, b)

RECURSIVE Times(_, _)
\* piece * n
Times(piece, n) == IF n <= 0 THEN <<>> ELSE <<piece>> \o Times(piece, n - 1)

RECURSIVE LStrip(_)
LStrip(s) == IF s # <<>> /\ Head(s) \in WhiteSpace THEN LStrip(Tail(s)) ELSE s
RECURSIVE RStrip(_)
RStrip(s) ==
    IF s # <<>> /\ s[Len(s)] \in WhiteSpace THEN RStrip(SubSeq(s, 1, Len(s) - 1)) ELSE s
\* str.strip()
Strip(s) == RStrip(LStrip(s))

\* The four texts lines 145-147 delete; ''' stands for the three backquotes
\* of a markdown code fence.
MarkdownPatterns ==
    {"'''json", "'''","**STEP 1 - TASTE ANALYSIS:**", "**STEP 2 - BOOK RECOMMENDATIONS:**"}

\* lines 142-147
CleanContent(content) == Without(Strip(content), MarkdownPatterns)

\* lines 154-163.  brace_count after the loop has passed position i (the
\* loop starts at json_start with brace_count 0 and counts every brace).
BraceCount(content, json_start, i) ==
    Cardinality({j \in json_start..i : content[j + 1] = "{"})
    - Cardinality({j \in json_start..i : content[j + 1] = "}"})

\* A scan that takes the last "}" of the content for the end of the object,
\* as analyze_taste_profile does.
ScanBracesToLast(content, json_start) ==
    IF PyRFind(content, "}") + 1 > json_start THEN PyRFind(content, "}") + 1 ELSE json_start

\* json_end: one past the first "}" at which brace_count is back to 0, where
\* the loop breaks; json_start when the loop ends without a break.
ScanBraces(content, json_start) ==
    LET closing == {i \in json_start..(Len(content) - 1) :
                      content[i + 1] = "}" /\ BraceCount(content, json_start, i) = 0}
    IN  IF closing = {} THEN json_start
        ELSE (CHOOSE i \in closing : \A j \in closing : i <= j) + 1

\* line 168: .replace('\n', ' ').replace('\r', '')
NormalizeLineBreaks(json_str) ==
    Without([i \in DOMAIN json_str |-> IF json_str[i] = "\n" THEN " " ELSE json_str[i]], {"\r"})

\* A repair that cuts after the last quote instead of before it.
RepairQuotesKeepingQuote(json_str) ==
    IF Count(json_str, "\"") % 2 # 0
    THEN LET last_quote == PyRFind(json_str, "\"")
             cut == PySlice(json_str, 0, last_quote + 1)
             open_braces == Count(cut, "{") - Count(cut, "}")
         IN  cut \o Times("}", open_braces)
    ELSE json_str

\* lines 170-175
RepairQuotes(json_str) ==
    IF Count(json_str, "\"") % 2 # 0
    THEN LET last_quote == PyRFind(json_str, "\"")
             cut == PySlice(json_str, 0, last_quote)
             open_braces == Count(cut, "{") - Count(cut, "}")
         IN  cut \o Times("}", open_braces)
    ELSE json_str

\* The fields of the result models, as section 3 of the specification types
\* them; the classes themselves live in app.models.response_models.
WellTypedBook(b) ==
    /\ b.title.t = "str" /\ b.author.t = "str" /\ b.reason.t = "str"
    /\ b.taste_match_score.t \in {"num", "null"}
    /\ b.primary_appeal.t \in {"str", "null"}

WellTypedProfile(p) ==
    /\ p.themes.t = "arr" /\ \A i \in DOMAIN p.themes.a : p.themes.a[i].t = "str"
    /\ p.narrative_style.t = "str" /\ p.emotional_tone.t = "str"
    /\ p.genre_fusion.t = "str" /\ p.character_preferences.t = "str"
    /\ p.artistic_sensibilities.t = "str"
    /\ p.confidence_score.t = "num"

\* What "for book_data in x" walks through: the items of a list, the keys of
\* a dict, the characters of a str.
Iterable(x) == x.t \in {"arr", "obj", "str"}
ItemsOf(x) ==
    CASE x.t = "arr" -> x.a
      [] x.t = "obj" -> [i \in DOMAIN x.o |-> Str(x.o[i][1])]
      [] x.t = "str" -> [i \in DOMAIN x.s |-> Str(<<x.s[i]>>)]

BookError == [raised |-> TRUE, books |-> <<>>]

\* line 193: the entry is skipped
Skipped(book_data) ==
    \/ ~Truthy(Get(book_data.o, <<"title">>, Null))
    \/ ~Truthy(Get(book_data.o, <<"author">>, Null))

\* lines 191-203.  validating: whether the result models reject a value of
\* another type than the field's (a pydantic ValidationError).
RECURSIVE CollectBooks(_, _)
CollectBooks(items, validating) ==
    IF items = <<>> THEN [raised |-> FALSE, books |-> <<>>]
    ELSE LET book_data == Head(items)
         IN  IF book_data.t # "obj" THEN BookError   \* no .get: AttributeError
             ELSE IF Skipped(book_data) THEN CollectBooks(Tail(items), validating)
             ELSE LET book == BookRecommendation(
                                  Get(book_data.o, <<"title">>, Null),
                                  Get(book_data.o, <<"author">>, Null),
                                  Get(book_data.o, <<"reason">>, Str(<<>>)),
                                  Get(book_data.o, <<"taste_match_score">>, Null),
                                  Get(book_data.o, <<"primary_appeal">>, Null))
                      rest == CollectBooks(Tail(items), validating)
                  IN  IF validating /\ ~WellTypedBook(book) THEN BookError
                      ELSE IF rest.raised THEN BookError
                      ELSE [raised |-> FALSE, books |-> <<book>> \o rest.books]

\* A parser that forgets the check of line 205.
NoValidBooksUnchecked(unified_books) == FALSE

\* line 205: if not unified_books
NoValidBooks(unified_books) == unified_books = <<>>

\* lines 185-228, on the decoded data
BuildResponse(data, movies, validating) ==
    IF ~Has(data.o, <<"unified_recommendations">>)
    THEN Logged(<<"error: Missing unified_recommendations in response">>,
                _create_fallback_response(movies))
    ELSE LET recommendations == Get(data.o, <<"unified_recommendations">>, Arr(<<>>))
             collected == IF Iterable(recommendations)
                          THEN CollectBooks(ItemsOf(recommendations), validating)
                          ELSE BookError               \* not iterable: TypeError
             unified_books == collected.books
             taste_profile_data == Get(data.o, <<"taste_profile">>, Obj(<<>>))
             d == taste_profile_data.o
             taste_profile == TasteProfile(
                 Get(d, <<"themes">>, Arr(<<>>)),
                 Get(d, <<"narrative_style">>, Str(<<>>)),
                 Get(d, <<"emotional_tone">>, Str(<<>>)),
                 Get(d, <<"genre_fusion">>, Str(<<>>)),
                 Get(d, <<"character_preferences">>, Str(<<>>)),
                 Get(d, <<"artistic_sensibilities">>, Str(<<>>)),
                 Get(d, <<"confidence_score">>, Num("0.7")))
         IN  IF collected.raised THEN Raise("Exception")
             ELSE IF NoValidBooks(unified_books)
             THEN Logged(<<"error: No valid book recommendations found">>,
                         _create_fallback_response(movies))
             ELSE IF taste_profile_data.t # "obj"
             THEN Raise("AttributeError")              \* no .get
             ELSE IF validating /\ ~WellTypedProfile(taste_profile)
             THEN Raise("ValidationError")
             ELSE Outcome(<< RecommendationResponse(
                                 _create_movie_summary(movies),
                                 unified_books, Some(taste_profile)) >>, <<>>)

\* lines 166-177: the text handed to json.loads
JsonStr(content, json_start, json_end) ==
    RepairQuotes(NormalizeLineBreaks(PySlice(content, json_start, json_end)))

\* lines 141-228: the try body.  content is None or Some(text).
TryParse(content, movies, validating) ==
    IF content = None THEN Raise("AttributeError")     \* None.strip()
    ELSE LET cleaned == CleanContent(content[1])
             json_start == PyFind(cleaned, "{")
             json_end == ScanBraces(cleaned, json_start)
             json_str == JsonStr(cleaned, json_start, json_end)
             data == JsonLoads(json_str)
         IN  IF json_start = -1
             THEN Logged(<<"error: No JSON start found in GPT response">>,
                         _create_fallback_response(movies))
             ELSE IF ~(json_end > json_start)
             THEN Logged(<<"error: Could not find complete JSON object">>,
                         _create_fallback_response(movies))
             ELSE IF ~data.ok THEN Decoded(json_str, Raise("JSONDecodeError"))
             ELSE Decoded(json_str, BuildResponse(data.v, movies, validating))

\* lines 138-236: the try body and its two except clauses
_parse_unified_response(content, movies, validating) ==
    LET try == TryParse(content, movies, validating)
    IN  IF try.raised /\ try.exc = "JSONDecodeError"
        THEN Except(try, <<"error: JSON decode error", "error: Content">>,
                    _create_fallback_response(movies))
        ELSE IF try.raised
        THEN Except(try, <<"error: Error parsing unified response">>,
                    _create_fallback_response(movies))
        ELSE try

\* ----------------------------------------------------- the LLM's replies
\* The await either raises (transport or API error, or a response object
\* without choices), or gives a message whose content is None or a text.
RaiseReply == [k |-> "raise", content |-> None]
ContentReply(content) == [k |-> "content", content |-> content]
TextReply(text) == ContentReply(Some(text))

\* lines 28-45, after the await: the rest of the try body, and the except
GenerateOutcome(reply, movies, validating) ==
    LET try == IF reply.k = "raise" THEN Raise("APIError")
               ELSE _parse_unified_response(reply.content, movies, validating)
    IN  IF try.raised
        THEN Except(try, <<"error: GPT API error">>, _create_fallback_response(movies))
        ELSE try

\* lines 334-339: the rest of the try body
TryAnalyze(reply) ==
    IF reply.k = "raise" THEN Raise("APIError")
    ELSE IF reply.content = None THEN Raise("AttributeError")    \* None.find
    ELSE LET content == reply.content[1]
             json_start == PyFind(content, "{")
             json_end == PyRFind(content, "}") + 1
             json_str == PySlice(content, json_start, json_end)
             data == JsonLoads(json_str)
         IN  IF data.ok THEN Decoded(json_str, Outcome(data.v, <<>>))
             ELSE Decoded(json_str, Raise("JSONDecodeError"))

\* An analyzer whose try has no except clause.
AnalyzeOutcomeUncaught(reply) == TryAnalyze(reply)

\* lines 323-351, after the await
AnalyzeOutcome(reply) ==
    LET try == TryAnalyze(reply)
    IN  IF try.raised
        THEN Except(try, <<"error: Error analyzing taste profile">>,
                    Outcome(AnalysisFallback, <<>>))
        ELSE try

\* ------------------------------------------------------------- inputs
Calls == 1..MaxCalls

Title(i) == "M" \o ToString(i)
\* the non-empty movie lists M1; M1, M2; ... up to MaxMovies titles
MovieLists == {[i \in 1..n |-> Title(i)] : n \in 1..MaxMovies}

OptionalGenres == {None, Some(<<>>), Some(<<"noir">>), Some(<<"noir", "satire">>)}
UserPreferences ==
    [mood : {None, Some(""), Some("dark")},
     pace : {None, Some("slow")},
     genre_preferences : OptionalGenres,
     genre_blocklist : OptionalGenres]
AllPreferences == {None} \cup {Some(p) : p \in UserPreferences}
DarkOnly ==
    Some([mood |-> Some("dark"), pace |-> None,
          genre_preferences |-> None, genre_blocklist |-> None])
FewPreferences == {None, DarkOnly}
FewMovieLists == {<<"Inception">>, <<"Alien", "Brazil">>}

\* JSON the LLM may write -------------------------------------------------
Member(key, value) == <<<<key>>, value>>
Words == <<"a", " ", "great", " ", "book">>

FullEntry ==
    Obj(<< Member("title", Text("Dune")), Member("author", Text("Frank Herbert")),
           Member("reason", Str(Words)), Member("taste_match_score", Num("0.95")),
           Member("primary_appeal", Text("scale")) >>)
MinimalEntry == Obj(<< Member("title", Text("Solaris")), Member("author", Text("Lem")) >>)
NoAuthorEntry == Obj(<< Member("title", Text("Ubik")), Member("reason", Str(Words)) >>)
NoTitleEntry == Obj(<< Member("author", Text("Le Guin")) >>)
EmptyTitleEntry == Obj(<< Member("title", Str(<<>>)), Member("author", Text("Borges")) >>)
NullReasonEntry ==
    Obj(<< Member("title", Text("Kindred")), Member("author", Text("Butler")),
           Member("reason", Null) >>)
EntryChoices ==
    {FullEntry, MinimalEntry, NoAuthorEntry, NoTitleEntry, EmptyTitleEntry,
     NullReasonEntry, Text("Dune by Frank Herbert")}

RECURSIVE SeqsUpTo(_, _)
\* the sequences over S of length at most n
SeqsUpTo(S, n) ==
    IF n = 0 THEN {<<>>}
    ELSE LET shorter == SeqsUpTo(S, n - 1)
         IN  shorter \cup {Append(q, x) : q \in {r \in shorter : Len(r) = n - 1}, x \in S}

FullProfile ==
    Obj(<< Member("themes", Arr(<<Text("memory"), Text("identity")>>)),
           Member("narrative_style", Text("non-linear")),
           Member("emotional_tone", Text("melancholic")),
           Member("genre_fusion", Text("sci-fi noir")),
           Member("character_preferences", Text("flawed")),
           Member("artistic_sensibilities", Text("stark")),
           Member("confidence_score", Num("0.85")) >>)
ProfileChoices ==
    {FullProfile, Null, Text("dark"),
     Obj(<< Member("themes", Arr(<<Text("memory")>>)) >>),
     Obj(<< Member("themes", Null), Member("confidence_score", Text("high")) >>)}

\* the "taste_profile" member, or none
ProfileMembers == {<<>>} \cup {<<Member("taste_profile", p)>> : p \in ProfileChoices}

RecommendationLists == {Arr(q) : q \in SeqsUpTo(EntryChoices, MaxEntries)}
OtherRecommendations ==
    {Null, Num("1"), Str(<<>>), Text("Dune"), Obj(<<>>), Obj(<<Member("title", Text("Dune"))>>)}

Documents ==
    {Obj(p \o <<Member("unified_recommendations", u)>>) :
        p \in ProfileMembers, u \in RecommendationLists \cup OtherRecommendations}
    \cup {Obj(p) : p \in ProfileMembers}
    \cup {FullProfile}

\* the document the prompt asks for, with MaxEntries books
GoodDocument ==
    Obj(<< Member("taste_profile", FullProfile),
           Member("unified_recommendations", Arr([i \in 1..MaxEntries |-> FullEntry])) >>)

OneBook(entry) == Obj(<< Member("unified_recommendations", Arr(<<entry>>)) >>)

\* One complete book whose reason is the given pieces: a reason with a line
\* break in it, with escaped quotes, with braces.  Render writes a string's
\* pieces as they are, so the escapes are written out here.
OneBookText(reason) ==
    << "{", "\"", "unified_recommendations", "\"", ":", " ", "[", "{",
       "\"", "title", "\"", ":", "\"", "Dune", "\"", ",",
       "\"", "author", "\"", ":", "\"", "Frank Herbert", "\"", ",",
       "\"", "reason", "\"", ":", "\"" >> \o reason \o << "\"", "}", "]", "}" >>
SpecialReasons ==
    { <<"first", "\n", "second">>,
      <<"6", "\\", "\"", " ", "tall">>,
      <<"say", " ", "\\", "\"", "hi", "\\", "\"">>,
      <<"ends", " ", "}", " ", "early">>,
      <<"a", " ", "{", "b", "}", " ", "c">> }
SpecialTexts == {OneBookText(reason) : reason \in SpecialReasons}

Fenced(text) == <<"'''json", "\n">> \o text \o <<"\n", "'''">>
WithHeadings(text) ==
    <<"**STEP 1 - TASTE ANALYSIS:**", "\n", "**STEP 2 - BOOK RECOMMENDATIONS:**", "\n">> \o text
WithProse(text) == <<"Here", " ", "you", " ", "go", ":", "\n">> \o text \o <<"\n", "Enjoy", "!">>
\* a stray quote before the last brace
WithStrayQuote(text) == SubSeq(text, 1, Len(text) - 1) \o <<" ", "\"", "}">>

\* every proper prefix of a text: a reply cut off by the output-length cap
Prefixes(text) == {SubSeq(text, 1, n) : n \in 0..(Len(text) - 1)}

JunkPieces == {"{", "}", "\"", "x", "\n"}

GoodText == Render(GoodDocument)

\* every text the model lets the LLM answer with
AllTexts ==
    {Render(d) : d \in Documents}
    \cup Prefixes(GoodText)
    \cup {GoodText, Fenced(GoodText), WithHeadings(GoodText), WithProse(GoodText),
          WithStrayQuote(GoodText), <<" ", "\n">> \o GoodText \o <<"\n">>}
    \cup SpecialTexts
    \cup SeqsUpTo(JunkPieces, MaxLen)

AllReplies == {RaiseReply, ContentReply(None)} \cup {TextReply(t) : t \in AllTexts}

\* a few replies of each kind, for the runs with several calls in flight
FewTexts ==
    { <<"Sorry", ",", " ", "no", " ", "books", ".">>,
      Fenced(Render(OneBook(MinimalEntry))),
      SubSeq(Render(OneBook(MinimalEntry)), 1, 12),
      Render(FullProfile) }
FewReplies == {RaiseReply, ContentReply(None)} \cup {TextReply(t) : t \in FewTexts}

\* -------------------------------------------------------------- state
VARIABLES
    pc,           \* per call: "idle", "awaiting" (suspended in the await),
                  \*           "returned" or "raised"
    method,       \* per call: "none", "generate", "analyze"
    movies,       \* per call: the movie list passed
    preferences,  \* per call: the preferences passed (None or Some)
    requests,     \* per call: the chat-completion requests issued, in order
    reply,        \* per call: the reply the await gave (None before)
    loads,        \* per call: the texts handed to json.loads, in order
    log,          \* per call: the log entries written, in order
    result        \* per call: None before the return, then Some(return value)

vars == <<pc, method, movies, preferences, requests, reply, loads, log, result>>

Init ==
    /\ pc = [c \in Calls |-> "idle"]
    /\ method = [c \in Calls |-> "none"]
    /\ movies = [c \in Calls |-> <<>>]
    /\ preferences = [c \in Calls |-> None]
    /\ requests = [c \in Calls |-> <<>>]
    /\ reply = [c \in Calls |-> None]
    /\ loads = [c \in Calls |-> <<>>]
    /\ log = [c \in Calls |-> <<>>]
    /\ result = [c \in Calls |-> None]

ChatCompletion(system, user, max_tokens, temperature) ==
    [model |-> "settings.gpt_model", system |-> system, user |-> user,
     max_tokens |-> max_tokens, temperature |-> temperature]

\* lines 26-37: build the prompt, issue the request, suspend
generate_recommendations(c, m, p) ==
    /\ pc[c] = "idle"
    /\ pc' = [pc EXCEPT ![c] = "awaiting"]
    /\ method' = [method EXCEPT ![c] = "generate"]
    /\ movies' = [movies EXCEPT ![c] = m]
    /\ preferences' = [preferences EXCEPT ![c] = p]
    /\ requests' = [requests EXCEPT ![c] =
           Append(@, ChatCompletion(_get_system_prompt, _build_unified_prompt(m, p),
                                    generate_max_tokens, generate_temperature))]
    /\ UNCHANGED <<reply, loads, log, result>>

\* A call that, after a failure, issues its request once more and waits again.
ReturnRetrying(c, r, outcome) ==
    IF outcome.log # <<>> /\ Len(requests[c]) < 2
    THEN /\ requests' = [requests EXCEPT ![c] = Append(@, @[1])]
         /\ log' = [log EXCEPT ![c] = @ \o outcome.log]
         /\ UNCHANGED <<pc, method, movies, preferences, reply, loads, result>>
    ELSE /\ pc' = [pc EXCEPT ![c] = IF outcome.raised THEN "raised" ELSE "returned"]
         /\ reply' = [reply EXCEPT ![c] = Some(r)]
         /\ loads' = [loads EXCEPT ![c] = @ \o outcome.loads]
         /\ log' = [log EXCEPT ![c] = @ \o outcome.log]
         /\ result' = [result EXCEPT ![c] = outcome.value]
         /\ UNCHANGED <<method, movies, preferences, requests>>

\* what the call has done when it returns
Return(c, r, outcome) ==
    /\ pc' = [pc EXCEPT ![c] = IF outcome.raised THEN "raised" ELSE "returned"]
    /\ reply' = [reply EXCEPT ![c] = Some(r)]
    /\ loads' = [loads EXCEPT ![c] = @ \o outcome.loads]
    /\ log' = [log EXCEPT ![c] = @ \o outcome.log]
    /\ result' = [result EXCEPT ![c] = outcome.value]
    /\ UNCHANGED <<method, movies, preferences, requests>>

\* lines 39-45: the await ends with reply r; parse it or fall back, return
generate_resume(c, r, validating) ==
    /\ pc[c] = "awaiting"
    /\ method[c] = "generate"
    /\ Return(c, r, GenerateOutcome(r, movies[c], validating))

\* lines 299-332: build the prompt, issue the request, suspend
analyze_taste_profile(c, m, p) ==
    /\ pc[c] = "idle"
    /\ pc' = [pc EXCEPT ![c] = "awaiting"]
    /\ method' = [method EXCEPT ![c] = "analyze"]
    /\ movies' = [movies EXCEPT ![c] = m]
    /\ preferences' = [preferences EXCEPT ![c] = p]
    /\ requests' = [requests EXCEPT ![c] =
           Append(@, ChatCompletion(AnalysisSystemPrompt, AnalysisPrompt(m),
                                    analyze_max_tokens, analyze_temperature))]
    /\ UNCHANGED <<reply, loads, log, result>>

\* lines 334-351: the await ends with reply r; decode it or fall back, return
analyze_resume(c, r) ==
    /\ pc[c] = "awaiting"
    /\ method[c] = "analyze"
    /\ Return(c, r, AnalyzeOutcome(r))

\* Several calls in flight, their steps interleaved in any order.
Next ==
    \E c \in Calls :
        \/ \E m \in FewMovieLists, p \in FewPreferences : generate_recommendations(c, m, p)
        \/ \E r \in FewReplies, validating \in BOOLEAN : generate_resume(c, r, validating)
        \/ \E m \in FewMovieLists : analyze_taste_profile(c, m, None)
        \/ \E r \in FewReplies : analyze_resume(c, r)

Spec == Init /\ [][Next]_vars

\* One generation call, over every reply.
NextParse ==
    \/ \E m \in MovieLists : generate_recommendations(1, m, None)
    \/ \E r \in AllReplies, validating \in BOOLEAN : generate_resume(1, r, validating)

SpecParse == Init /\ [][NextParse]_vars

\* One generation call per movie list and preferences, up to the request.
NextPrompt ==
    \E m \in MovieLists, p \in AllPreferences : generate_recommendations(1, m, p)

SpecPrompt == Init /\ [][NextPrompt]_vars

\* ================================================================ claims
FallbackWarning == "warning: Using fallback response due to GPT parsing error"

Finished(c) == pc[c] \in {"returned", "raised"}
Generated(c) == method[c] = "generate" /\ Finished(c)
Analyzed(c) == method[c] = "analyze" /\ Finished(c)
UsedFallback(c) == FallbackWarning \in Range(log[c])
IsText(c) == reply[c] # None /\ reply[c][1].k = "content" /\ reply[c][1].content # None
ReplyText(c) == reply[c][1].content[1]
\* the one response of the list a generation call returned
TheResponse(c) == result[c][1][1]

ProfileFields ==
    {"themes", "narrative_style", "emotional_tone", "genre_fusion",
     "character_preferences", "artistic_sensibilities", "confidence_score"}

\* C1: whatever the LLM call gives (an exception, no content, an empty or
\* non-JSON or truncated text, JSON of any shape), a generation call with a
\* non-empty movie list does not raise and returns a list of exactly one
\* result, with at least one book and with a taste profile that has all its
\* seven fields.
C1_OneUsableResult ==
    \A c \in Calls :
        method[c] = "generate" /\ pc[c] \notin {"idle", "awaiting"} =>
            /\ movies[c] # <<>>
            /\ pc[c] = "returned"
            /\ result[c] # None
            /\ Len(result[c][1]) = 1
            /\ TheResponse(c).books # <<>>
            /\ TheResponse(c).taste_profile # None
            /\ DOMAIN TheResponse(c).taste_profile[1] = ProfileFields

\* a generation call has returned for a reply cut off in the middle of the JSON
C1_Witness ==
    \E c \in Calls :
        /\ Generated(c) /\ IsText(c)
        /\ ReplyText(c) \in Prefixes(GoodText) /\ "{" \in Range(ReplyText(c))
        /\ Len(result[c][1]) = 1 /\ Len(TheResponse(c).books) = 3

\* The reply ends inside the string value of a "reason" member that follows
\* a title and an author: the number of quotes is odd and no closing brace or
\* bracket comes after the last quote.
CutInsideReason(t) ==
    LET q == RFind(t, "\"")
    IN  /\ Count(t, "\"") % 2 = 1
        /\ q > 4 /\ SubSeq(t, q - 4, q - 1) = <<"reason", "\"", ":", " ">>
        /\ \A i \in (q + 1)..Len(t) : t[i] \notin {"}", "]", "\""}
        /\ "title" \in Range(t) /\ "author" \in Range(t)
        /\ Head(t) = "{"

\* C2: a reply cut off inside a string value, with no closing braces after
\* it, is closed and parsed: the result is a parsed one, not the fallback, and
\* holds the book with its reason as far as it got.
C2_TruncatedStringRecovered ==
    \A c \in Calls :
        Generated(c) /\ IsText(c) /\ CutInsideReason(ReplyText(c)) =>
            /\ ~UsedFallback(c)
            /\ \E i \in DOMAIN TheResponse(c).books :
                   /\ TheResponse(c).books[i].title = Text("Dune")
                   /\ TheResponse(c).books[i].reason.t = "str"

\* the values of an entry, and of a taste profile, have the types section 3
\* of the specification gives them
TypedEntry(e) ==
    /\ Get(e.o, <<"title">>, Str(<<>>)).t = "str"
    /\ Get(e.o, <<"author">>, Str(<<>>)).t = "str"
    /\ Get(e.o, <<"reason">>, Str(<<>>)).t = "str"
    /\ Get(e.o, <<"taste_match_score">>, Null).t \in {"num", "null"}
    /\ Get(e.o, <<"primary_appeal">>, Null).t \in {"str", "null"}
TypedProfile(p) ==
    /\ p.t = "obj"
    /\ Get(p.o, <<"themes">>, Arr(<<>>)).t = "arr"
    /\ \A k \in ProfileFields \ {"themes", "confidence_score"} :
           Get(p.o, <<k>>, Str(<<>>)).t = "str"
    /\ Get(p.o, <<"confidence_score">>, Num("0.7")).t = "num"

HasTitleAndAuthor(e) ==
    Truthy(Get(e.o, <<"title">>, Null)) /\ Truthy(Get(e.o, <<"author">>, Null))

\* C3: when the reply is JSON for an object whose unified_recommendations is
\* a list of objects, and the parser decodes it to that object, the books
\* returned are exactly the entries that have a title and an author, in their
\* order, and the result is the fallback when there is none.  (Stated for
\* entries whose values have the documented types, and a taste profile that
\* is absent, not an object, or an object with the documented types: there it
\* makes no difference whether the result models validate.)
C3_BooksAreTheCompleteEntries ==
    \A c \in Calls :
        Generated(c) /\ IsText(c) =>
            LET d == JsonLoads(ReplyText(c))
                u == Get(d.v.o, <<"unified_recommendations">>, Null)
                profile == Get(d.v.o, <<"taste_profile">>, Obj(<<>>))
                kept == SelectSeq(u.a, HasTitleAndAuthor)
                books == TheResponse(c).books
            IN  ( /\ d.ok /\ d.v.t = "obj" /\ u.t = "arr"
                  /\ Len(loads[c]) = 1 /\ JsonLoads(loads[c][1]).ok
                  /\ JsonLoads(loads[c][1]).v = d.v
                  /\ \A i \in DOMAIN u.a : u.a[i].t = "obj" /\ TypedEntry(u.a[i])
                  /\ profile.t = "obj" => TypedProfile(profile) )
                => IF kept = <<>>
                   THEN UsedFallback(c) /\ books = fallback_books
                   ELSE /\ ~UsedFallback(c)
                        /\ Len(books) = Len(kept)
                        /\ \A i \in DOMAIN kept :
                               /\ books[i].title = Get(kept[i].o, <<"title">>, Null)
                               /\ books[i].author = Get(kept[i].o, <<"author">>, Null)

\* The part of a text from its first "{" to the first "}" at which as many
\* "}" as "{" have been seen; None when there is no "{" or no such "}".
BalancedSpan(s) ==
    LET first == Find(s, "{")
        ends == {k \in first..Len(s) :
                    /\ k > 0 /\ s[k] = "}"
                    /\ Count(SubSeq(s, first, k), "{") = Count(SubSeq(s, first, k), "}")}
    IN  IF first = 0 \/ ends = {} THEN None
        ELSE Some(SubSeq(s, first, CHOOSE k \in ends : \A j \in ends : k <= j))

\* a text with each line feed made a space and each carriage return dropped
OnOneLine(s) == Without([i \in DOMAIN s |-> IF s[i] = "\n" THEN " " ELSE s[i]], {"\r"})

\* a text cut before its last quote, and the "}" it then lacks
CutAtLastQuote(s) == SubSeq(s, 1, RFind(s, "\"") - 1)
OpenBraces(s) == Count(s, "{") - Count(s, "}")

\* C4 as stated: the fallback when the cleaned reply has no "{" or the brace
\* depth never returns to zero; otherwise the decoder gets the text from the
\* first "{" to the first "}" where the depth returns to zero (on one line).
C4_DecoderGetsBalancedSpan ==
    \A c \in Calls :
        Generated(c) /\ IsText(c) =>
            LET span == BalancedSpan(CleanContent(ReplyText(c)))
            IN  IF span = None
                THEN UsedFallback(c) /\ loads[c] = <<>>
                     /\ TheResponse(c).books = fallback_books
                ELSE loads[c] = <<OnOneLine(span[1])>>

\* C4, amended: the fallback when the cleaned reply has no "{" or the brace
\* depth never returns to zero; otherwise the decoder gets the text from the
\* first "{" to the first "}" where the depth returns to zero, on one line,
\* and when that text has an odd number of quotes, cut before its last quote
\* and closed with one "}" for each "{" still open.
C4_DecoderGetsRepairedSpan ==
    \A c \in Calls :
        Generated(c) /\ IsText(c) =>
            LET span == BalancedSpan(CleanContent(ReplyText(c)))
                line == OnOneLine(span[1])
                cut == CutAtLastQuote(line)
            IN  IF span = None
                THEN UsedFallback(c) /\ loads[c] = <<>>
                     /\ TheResponse(c).books = fallback_books
                ELSE IF Count(line, "\"") % 2 = 0
                THEN loads[c] = <<line>>
                ELSE loads[c] = <<cut \o [i \in 1..OpenBraces(cut) |-> "}"]>>

\* the depth returns to zero before the end of the cleaned reply, and the
\* decoder got the text up to there
C4_Witness ==
    \E c \in Calls :
        /\ Generated(c) /\ IsText(c)
        /\ BalancedSpan(CleanContent(ReplyText(c))) # None
        /\ Len(BalancedSpan(CleanContent(ReplyText(c)))[1]) < Len(CleanContent(ReplyText(c)))
        /\ Len(loads[c]) = 1 /\ Len(loads[c][1]) > 2

\* the quote repair runs: the balanced text has an odd number of quotes
RepairRuns(c) ==
    /\ Generated(c) /\ IsText(c)
    /\ BalancedSpan(CleanContent(ReplyText(c))) # None
    /\ Count(BalancedSpan(CleanContent(ReplyText(c)))[1], "\"") % 2 = 1

\* C10: whenever the quote repair runs, the text handed to the decoder has an
\* even number of quotes and as many "}" as "{": the cut at the last quote
\* leaves at least one "{" open, and exactly that many "}" are appended.
C10_RepairBalances ==
    \A c \in Calls :
        RepairRuns(c) =>
            LET cut == CutAtLastQuote(OnOneLine(BalancedSpan(CleanContent(ReplyText(c)))[1]))
            IN  /\ Len(loads[c]) = 1
                /\ Count(loads[c][1], "\"") % 2 = 0
                /\ Count(loads[c][1], "{") = Count(loads[c][1], "}")
                /\ OpenBraces(cut) >= 1
                /\ Len(loads[c][1]) = Len(cut) + OpenBraces(cut)
                /\ SubSeq(loads[c][1], 1, Len(cut)) = cut
                /\ \A i \in (Len(cut) + 1)..Len(loads[c][1]) : loads[c][1][i] = "}"

\* the repair ran on a reply with two braces open at its last quote
C10_Witness ==
    \E c \in Calls :
        /\ RepairRuns(c)
        /\ Len(loads[c]) = 1
        /\ \E n \in 2..Len(loads[c][1]) :
               /\ loads[c][1][n] = "}" /\ loads[c][1][n - 1] = "}"
               /\ OpenBraces(SubSeq(loads[c][1], 1, n - 2)) = 2

\* what the analysis call did with its reply failed: the request raised, the
\* reply had no content, no "{" or no "}", or did not decode
AnalyzeFailed(c) ==
    \/ reply[c][1].k = "raise"
    \/ reply[c][1].content = None
    \/ Find(ReplyText(c), "{") = 0
    \/ Find(ReplyText(c), "}") = 0
    \/ ~JsonLoads(SubSeq(ReplyText(c), Find(ReplyText(c), "{"), RFind(ReplyText(c), "}"))).ok
    \/ log[c] # <<>>

GenerateFailed(c) ==
    \/ reply[c][1].k = "raise"
    \/ reply[c][1].content = None
    \/ Find(ReplyText(c), "{") = 0
    \/ UsedFallback(c)

\* C5: in every interleaving of generation and analysis calls, a failing
\* analysis call returns, without raising, the fixed analysis mapping with
\* confidence_score 0.5, and a failing generation call returns the fixed
\* generation fallback with its three books and confidence_score 0.6,
\* whatever the other calls did.
C5_FallbacksFixedAndSeparate ==
    \A c \in Calls :
        /\ Analyzed(c) /\ AnalyzeFailed(c) =>
               /\ pc[c] = "returned"
               /\ result[c] = Some(AnalysisFallback)
               /\ Get(result[c][1].o, <<"confidence_score">>, Null) = Num("0.5")
               /\ Get(result[c][1].o, <<"narrative_style">>, Null)
                      = Text("Layered, sophisticated storytelling")
        /\ Generated(c) /\ GenerateFailed(c) =>
               /\ pc[c] = "returned"
               /\ Len(result[c][1]) = 1
               /\ TheResponse(c).books = fallback_books
               /\ Len(TheResponse(c).books) = 3
               /\ TheResponse(c).taste_profile = Some(fallback_taste_profile)
               /\ TheResponse(c).taste_profile[1].confidence_score = Num("0.6")

\* a failed analysis call and a failed generation call have both returned
C5_Witness ==
    \E a, g \in Calls :
        /\ Analyzed(a) /\ AnalyzeFailed(a) /\ reply[a][1].k = "content"
        /\ Generated(g) /\ GenerateFailed(g)
        /\ result[a] = Some(AnalysisFallback)
        /\ TheResponse(g).books = fallback_books

\* C9: every invocation issues exactly one chat-completion request; after a
\* failure it has returned its fallback, and no second request was issued.
C9_OneRequestPerInvocation ==
    \A c \in Calls :
        /\ pc[c] = "idle" => requests[c] = <<>>
        /\ pc[c] # "idle" => Len(requests[c]) = 1
        /\ reply[c] # None => Finished(c)
        /\ Generated(c) /\ GenerateFailed(c) => pc[c] = "returned" /\ UsedFallback(c)
        /\ Analyzed(c) /\ AnalyzeFailed(c) =>
               pc[c] = "returned" /\ result[c] = Some(AnalysisFallback)

\* a call whose request raised has returned, with its one request
C9_Witness ==
    \E c \in Calls :
        Finished(c) /\ reply[c] = Some(RaiseReply) /\ Len(requests[c]) = 1

\* the summary the claim words: one movie, two movies, three or more
ClaimedSummary(m) ==
    IF Len(m) = 1 THEN "Based on your interest in " \o m[1]
    ELSE IF Len(m) = 2 THEN "Based on your taste for " \o m[1] \o " and " \o m[2]
    ELSE "Based on your taste profile from "
         \o Join([i \in 1..(Len(m) - 1) |-> m[i]], ", ") \o ", and " \o m[Len(m)]

\* C6: the movie summary of every result, parsed or fallback, is the text the
\* movie list alone determines.
C6_SummaryFromMoviesOnly ==
    \A c \in Calls :
        Generated(c) =>
            /\ TheResponse(c).movie = ClaimedSummary(movies[c])
            /\ movies[c] = <<"M1">> => TheResponse(c).movie = "Based on your interest in M1"
            /\ movies[c] = <<"M1", "M2">> =>
                   TheResponse(c).movie = "Based on your taste for M1 and M2"
            /\ movies[c] = <<"M1", "M2", "M3">> =>
                   TheResponse(c).movie = "Based on your taste profile from M1, M2, and M3"

\* a parsed result for three movies
C6_Witness ==
    \E c \in Calls :
        Generated(c) /\ ~UsedFallback(c) /\ Len(movies[c]) = 3
        /\ TheResponse(c).movie = "Based on your taste profile from M1, M2, and M3"

\* C7 as stated: for exactly two movies the summary is
\* "Based on your interest in m1 and m2".
C7_TwoMoviesInterest ==
    \A c \in Calls :
        Generated(c) /\ Len(movies[c]) = 2 =>
            TheResponse(c).movie
                = "Based on your interest in " \o movies[c][1] \o " and " \o movies[c][2]

\* C7, amended: for exactly two movies the summary is
\* "Based on your taste for m1 and m2".
C7_TwoMoviesTaste ==
    \A c \in Calls :
        Generated(c) /\ Len(movies[c]) = 2 =>
            TheResponse(c).movie
                = "Based on your taste for " \o movies[c][1] \o " and " \o movies[c][2]

\* a result for two movies
C7_Witness ==
    \E c \in Calls :
        Generated(c) /\ Len(movies[c]) = 2
        /\ TheResponse(c).movie = "Based on your taste for M1 and M2"

\* the bullet lines the claim gives the preferences p, in its order: mood,
\* pace, favored genres, avoided genres; a field is set when it has a
\* non-empty value
ClaimedBullets(p) ==
    (IF p.mood \notin {None, Some("")}
     THEN <<Bullet \o "Mood alignment: " \o p.mood[1]>> ELSE <<>>)
    \o (IF p.pace \notin {None, Some("")}
        THEN <<Bullet \o "Pacing: " \o p.pace[1]>> ELSE <<>>)
    \o (IF p.genre_preferences \notin {None, Some(<<>>)}
        THEN <<Bullet \o "Favor: " \o Join(p.genre_preferences[1], ", ")>> ELSE <<>>)
    \o (IF p.genre_blocklist \notin {None, Some(<<>>)}
        THEN <<Bullet \o "Avoid: " \o Join(p.genre_blocklist[1], ", ")>> ELSE <<>>)

\* the lines of a prompt after its CONSTRAINTS: line, up to the next empty line
BlockLines(prompt) ==
    LET k == Find(prompt, "CONSTRAINTS:")
        end == CHOOSE j \in (k + 1)..Len(prompt) :
                   prompt[j] = "" /\ \A i \in (k + 1)..(j - 1) : prompt[i] # ""
    IN  SubSeq(prompt, k + 1, end - 1)

\* C8: the generation prompt has a CONSTRAINTS block exactly when one of
\* mood, pace, genre_preferences, genre_blocklist is set; the block has one
\* bullet line for each set field and none for the others, in the order
\* mood, pace, favored genres, avoided genres.
C8_ConstraintsBlock ==
    \A c \in Calls :
        method[c] = "generate" /\ pc[c] # "idle" =>
            LET prompt == requests[c][1].user
                claimed == IF preferences[c] = None THEN <<>>
                           ELSE ClaimedBullets(preferences[c][1])
            IN  /\ ("CONSTRAINTS:" \in Range(prompt)) <=> (claimed # <<>>)
                /\ Count(prompt, "CONSTRAINTS:") <= 1
                /\ claimed # <<>> => BlockLines(prompt) = claimed
                /\ preferences[c] = DarkOnly =>
                       BlockLines(prompt) = <<Bullet \o "Mood alignment: dark">>

\* a prompt for preferences with the pace and the avoided genres set
C8_Witness ==
    \E c \in Calls :
        /\ method[c] = "generate" /\ pc[c] = "awaiting"
        /\ preferences[c] # None
        /\ preferences[c][1].mood = None /\ preferences[c][1].genre_preferences = Some(<<>>)
        /\ BlockLines(requests[c][1].user)
               = <<Bullet \o "Pacing: slow", Bullet \o "Avoid: noir, satire">>
====
